---- MODULE Spec2Model ----
(***************************************************************************)
(* Model of src/main.js: the setup sequence, the capture controller        *)
(* (enableCam / getUserMedia / loadeddata), the per-frame orchestration    *)
(* loop (predictWebcam), the WebSocket transport (setupWebSocket,          *)
(* safeSocketSend) and the helpers checkDeviceIds / getWebcamDevices.      *)
(*                                                                         *)
(* The JavaScript runtime is single threaded: every action below is one    *)
(* run-to-completion piece of code between two suspension points (an       *)
(* await, a promise callback, an event callback, an animation frame).      *)
(***************************************************************************)
EXTENDS Integers, Sequences, FiniteSets, TLC

\* ------------------------------------------------------------------ bounds
MaxFrames == 3      \* predictWebcam invocations in a run
MaxMsgs == 1        \* inbound messages handled in a run
MaxTime == 1        \* largest video.currentTime a stream reaches
MaxDevices == 2     \* longest device list in the checkDeviceIds harness

\* ------------------------------------------------------- models, registry
\* The six model state objects imported at line 22.
Models == {"faceLandmark", "faceDetector", "hand", "gesture", "pose", "object"}

\* let allModelState = [faceLandmarkState, handState, gestureState, poseState, objectState];
allModelState == <<"faceLandmark", "hand", "gesture", "pose", "object">>

\* let landmarkerModelState = [faceLandmarkState, handState, gestureState, poseState];
landmarkerModelState == <<"faceLandmark", "hand", "gesture", "pose">>

\* The order in which setup() awaits the adapter factories (lines 40-46).
LoadOrder == <<"hand", "gesture", "faceLandmark", "faceDetector", "pose", "object">>

Range(s) == {s[k] : k \in 1..Len(s)}

\* ------------------------------------------------------------ device ids
DeviceIds == {"camA", "camB"}
UnknownId == "camX"
NoId == "none"

\* The deviceId values of the selectWebcam messages tried: the second entry
\* of the device list, and an id no list holds.
SelectIds == {"camB", UnknownId}

\* navigator.mediaDevices.enumerateDevices() filtered to video inputs and
\* mapped to {deviceId, label}; only the deviceId is read by the program.
DeviceLists == {<<"camA", "camB">>}

\* ------------------------------------------------------------ config keys
\* configMap (modelParams.js): option name -> setter.  One detect toggle per
\* model and the overlay toggle.
DetectKey == [faceLandmark |-> "Detectfacelandmarks", faceDetector |-> "Detectfaces",
              hand |-> "Detecthands", gesture |-> "Detectgestures",
              pose |-> "Detectposes", object |-> "Detectobjects"]
OverlayKey == "Showoverlays"
OwnKeys == {DetectKey[m] : m \in Models} \cup {OverlayKey}

\* Properties every plain object inherits from Object.prototype: the `in`
\* operator of lines 54 and 180 sees them.  "toString" is callable,
\* "__proto__" is an object and not callable.
ProtoCallable == {"toString"}
ProtoNotCallable == {"__proto__"}
UnknownKey == "Nosuchkey"

\* The keys the parameter lists and messages tried are built from: an own key,
\* a key found nowhere, and the two kinds of inherited key.
Keys == {DetectKey["gesture"], UnknownKey} \cup ProtoCallable \cup ProtoNotCallable
Entries == {[key |-> k, value |-> v] : k \in Keys \cap OwnKeys, v \in BOOLEAN}
           \cup {[key |-> k, value |-> TRUE] : k \in Keys \ OwnKeys}

VARIABLES
  setupPc,          \* position of the async setup() function
  landmarker,       \* models whose .landmarker is non-null
  detect,           \* models whose .detect is true
  results,          \* models whose .results is non-null
  overlayShow,      \* overlayState.show
  webcamId,         \* webcamState.webcamId
  webcamDevices,    \* webcamState.webcamDevices
  webcamRunning,    \* webcamState.webcamRunning
  lastVideoTime,    \* webcamState.lastVideoTime
  ws,               \* socketState.ws: "null" or the connection's readyState
                    \* (no code tells CLOSING from CLOSED: "CLOSED" is both)
  openPc,           \* the open handler: "none", "enum" (awaiting devices), "done"
  bodyRed,          \* document.body.style.backgroundColor = "red"
  videoState,       \* "empty" | "loading" (srcObject set, no frame) | "playing"
  currentTime,      \* video.currentTime
  listeners,        \* number of "loadeddata" listeners on the video element
  pendingListeners, \* listeners of a dispatched loadeddata event not yet run
  rafQueue,         \* callbacks queued by window.requestAnimationFrame
  gumPending,       \* outstanding getUserMedia promises, by requested deviceId
  awaiting,         \* predictWebcam invocations suspended at an await
  now,              \* performance.now(), one tick per predictWebcam invocation
  msgCount,         \* inbound JSON messages handled
  \* ---- history variables: counts over the whole run
  pongCalls,        \* ws.send('pong') invocations
  devCalls,         \* ws.send(webcamDevices message) invocations
  gumCalls,         \* getUserMedia invocations (= enableCam invocations)
  grants,           \* getUserMedia promises fulfilled
  loadedStarts,     \* predictWebcam invocations made by loadeddata listeners
  dispatched,       \* currentTime values for which the dispatch block ran
  dupDispatch,      \* the dispatch block ran for a value already in dispatched
  lastDispatch,     \* currentTime of the latest run of the dispatch block
  detectTs,         \* per adapter, the largest timestampMs passed to it so far
  failedAt,         \* the model whose adapter factory rejected, or "none"
  aliveAtSwitch,    \* a selectWebcam message arrived while a chain was alive
  \* ---- observation variables: what the latest step did (reset by every step)
  wsSendCalls,      \* its ws.send invocations, by the readyState class each met
  safeCalls,        \* its safeSocketSend invocations, likewise
  devMsg,           \* the webcamDevices message it passed to ws.send
  detectCall,       \* the detectForVideo / recognizeForVideo call it issued
  finished,         \* the predictWebcam invocation it brought to its end
  lastEvent         \* the parameter list or inbound message it handled

progVars == <<setupPc, landmarker, detect, results, overlayShow, webcamId,
              webcamDevices, webcamRunning, lastVideoTime, ws, openPc, bodyRed,
              videoState, currentTime, listeners, pendingListeners, rafQueue,
              gumPending, awaiting, now, msgCount>>
histVars == <<pongCalls, devCalls, gumCalls, grants, loadedStarts, dispatched,
              dupDispatch, lastDispatch, detectTs, failedAt, aliveAtSwitch>>
obsVars == <<wsSendCalls, safeCalls, devMsg, detectCall, finished, lastEvent>>
vars == <<progVars, histVars, obsVars>>

modelVars == <<landmarker, detect, results>>
webcamVars == <<webcamId, webcamDevices, webcamRunning, lastVideoTime>>
socketVars == <<ws, openPc>>
videoVars == <<videoState, currentTime, listeners, pendingListeners>>
sendVars == <<pongCalls, devCalls>>
camVars == <<gumPending, gumCalls, grants>>
dispatchVars == <<lastVideoTime, dispatched, dupDispatch, lastDispatch, detectTs>>

\* ---------------------------------------------------------- pure helpers
Min(S) == CHOOSE x \in S : \A y \in S : x <= y

\* function checkDeviceIds(key, deviceIds): the for loop from index i.
RECURSIVE checkDeviceIdsFrom(_, _, _)
checkDeviceIdsFrom(key, deviceIds, i) ==
  IF i > Len(deviceIds) THEN FALSE
  ELSE IF deviceIds[i].deviceId = key THEN TRUE
  ELSE checkDeviceIdsFrom(key, deviceIds, i + 1)

checkDeviceIdsAlways(key, deviceIds) == TRUE

checkDeviceIdsFirstOnly(key, deviceIds) ==
  Len(deviceIds) > 0 /\ deviceIds[1].deviceId = key

checkDeviceIds(key, deviceIds) == checkDeviceIdsFrom(key, deviceIds, 1)

\* webcams.map(({ deviceId, label }) => ({ deviceId, label }))
DeviceInfo(ids) == [k \in 1..Len(ids) |-> [deviceId |-> ids[k]]]

NoCalls == [open |-> 0, notOpen |-> 0]
\* The webcamDevices message of a step: enumOk / ids = how enumerateDevices()
\* settled, devices = the list passed to ws.send.
NoDevMsg == [sent |-> FALSE, enumOk |-> TRUE, ids |-> <<>>, devices |-> <<>>]

\* ws.send(data): the call is recorded with the readyState class it met.
WsSend(readyState, calls) ==
  IF readyState = "OPEN" THEN [calls EXCEPT !.open = @ + 1]
  ELSE [calls EXCEPT !.notOpen = @ + 1]

safeSocketSendUnguarded(readyState, calls) == WsSend(readyState, calls)

\* function safeSocketSend(ws, data)
safeSocketSend(readyState, calls) ==
  IF readyState = "OPEN" THEN WsSend(readyState, calls) ELSE calls

\* One safeSocketSend call made by the loop: c = [ws, safe] carries the two
\* call logs through the synchronous code of one action.
LoopSend(readyState, c) ==
  [ws |-> safeSocketSend(readyState, c.ws),
   safe |-> IF readyState = "OPEN" THEN [c.safe EXCEPT !.open = @ + 1]
            ELSE [c.safe EXCEPT !.notOpen = @ + 1]]

\* ------------------------------------------------------------- configMap
\* `key in configMap`: own and inherited properties.
KeyInConfigMap(key) == key \in OwnKeys \cup ProtoCallable \cup ProtoNotCallable

\* configMap[key](value) for an own key; st = [detect, show, threw, applied].
ConfigSet(key, value, st) ==
  IF key = OverlayKey THEN [st EXCEPT !.show = value, !.applied = @ + 1]
  ELSE LET m == CHOOSE x \in Models : DetectKey[x] = key
       IN [st EXCEPT !.detect = IF value THEN @ \cup {m} ELSE @ \ {m},
                     !.applied = @ + 1]

\* The forEach / for-of loop over the entries of a parameter list or message.
RECURSIVE ApplyEntries(_, _)
ApplyEntries(entries, st) ==
  IF entries = <<>> THEN st
  ELSE LET e == Head(entries) IN
       IF ~KeyInConfigMap(e.key) THEN ApplyEntries(Tail(entries), st)
       ELSE IF e.key \in ProtoNotCallable THEN [st EXCEPT !.threw = TRUE]
       ELSE IF e.key \in ProtoCallable THEN ApplyEntries(Tail(entries), st)
       ELSE ApplyEntries(Tail(entries), ConfigSet(e.key, e.value, st))

ConfigState == [detect |-> detect, show |-> overlayShow, threw |-> FALSE, applied |-> 0]

\* What the handler of the latest step was given and did: deviceId = the id of
\* a selectWebcam message (or of a refused capture request), known = what
\* checkDeviceIds returned for it, own = entries whose key is an own key of
\* configMap, foreign = entries whose key is not, applied = setter calls made,
\* threw = the handler ended with an exception.
NoEvent == [type |-> "none", deviceId |-> NoId, known |-> FALSE, own |-> 0,
            foreign |-> 0, applied |-> 0, threw |-> FALSE]

ConfigEvent(type, entries, st) ==
  [NoEvent EXCEPT !.type = type,
                  !.own = Cardinality({k \in 1..Len(entries) : entries[k].key \in OwnKeys}),
                  !.foreign = Cardinality({k \in 1..Len(entries) : entries[k].key \notin OwnKeys}),
                  !.applied = st.applied,
                  !.threw = st.threw]


\* ------------------------------------------------------- observation reset
\* The detection call of a step: model = the adapter called (or "none"), ts =
\* the timestampMs passed, prev = the largest timestampMs passed to that
\* adapter before, outstanding = the calls still awaited when it was issued.
NoCall == [model |-> "none", ts |-> 0, prev |-> 0, outstanding |-> 0]

NoSend ==
  /\ wsSendCalls' = NoCalls /\ safeCalls' = NoCalls /\ devMsg' = NoDevMsg
  /\ detectCall' = NoCall

\* ended: an invocation ended in this step, ts: its startTimeMs (0 when none
\* ended); early: at the return of line 98;
\* processed: its dispatch block ran; en0: the registry entries enabled when it
\* ran, det: the entries a detection call was made for; stable: no detect flag
\* changed while the invocation was suspended; resultCalls / timingCalls: its
\* safeSocketSend calls with a result / timing message; timingWire: ws.send
\* invocations for the timing message; drawn: its draw calls; requeued: it
\* called requestAnimationFrame.
NoFrame == [ended |-> FALSE, ts |-> 0, early |-> FALSE, processed |-> FALSE,
            det |-> {}, en0 |-> {}, stable |-> TRUE, resultCalls |-> 0, timingCalls |-> 0,
            timingWire |-> 0, drawn |-> <<>>, requeued |-> FALSE]

\* ---------------------------------------------------------- predictWebcam
\* video.videoWidth (videoHeight likewise): 0 until the stream has a frame.
videoWidth == IF videoState = "playing" THEN 1280 ELSE 0

ShouldDetectAlways(last, time) == TRUE

\* if (webcamState.lastVideoTime !== video.currentTime)
ShouldDetect(last, time) == last # time

NextDetectAll(from, det, lm) ==
  LET S == {k \in from..Len(allModelState) : allModelState[k] \in lm}
  IN IF S = {} THEN 0 ELSE Min(S)

\* if (landmarker.detect && landmarker.landmarker), for the registry entries
\* from index `from` on: the index of the first entry the loop detects with,
\* 0 when the loop ends.
NextDetect(from, det, lm) ==
  LET S == {k \in from..Len(allModelState) : allModelState[k] \in det \cap lm}
  IN IF S = {} THEN 0 ELSE Min(S)

DrawCallsObjectFirst(show, det, res) ==
  IF show
  THEN (IF "object" \in det \cap res THEN <<"object">> ELSE <<>>)
       \o SelectSeq(landmarkerModelState, LAMBDA m : m \in det \cap res)
  ELSE <<>>

DrawCallsNoResultsCheck(show, det, res) ==
  IF show
  THEN SelectSeq(landmarkerModelState, LAMBDA m : m \in det)
       \o (IF "object" \in det THEN <<"object">> ELSE <<>>)
  ELSE <<>>

\* if (overlayState.show) { ... }: the draw calls of one invocation, in order.
DrawCalls(show, det, res) ==
  IF show
  THEN SelectSeq(landmarkerModelState, LAMBDA m : m \in det \cap res)
       \o (IF "object" \in det \cap res THEN <<"object">> ELSE <<>>)
  ELSE <<>>

\* Lines 131-150: draw, requeue and the timing message, for the invocation
\* summarised by f, with the call logs c and the results res it has reached;
\* q is the animation-frame queue the invocation found.
FinishFrame(f, c, res, q) ==
  LET c2 == LoopSend(ws, c) IN
  /\ rafQueue' = IF webcamRunning THEN q + 1 ELSE q
  /\ wsSendCalls' = c2.ws
  /\ safeCalls' = c2.safe
  /\ devMsg' = NoDevMsg
  /\ detectCall' = NoCall
  /\ finished' = [f EXCEPT !.ended = TRUE,
                           !.timingCalls = 1,
                           !.timingWire = c2.ws.open + c2.ws.notOpen
                                          - (c.ws.open + c.ws.notOpen),
                           !.drawn = DrawCalls(overlayShow, detect, res),
                           !.requeued = webcamRunning]

SuspendedQueueRequeued(q) == q + 1

\* The animation-frame queue left by an invocation that suspends at the await
\* of lines 119-121: line 144 has not been reached, nothing is queued.
SuspendedQueue(q) == q

\* marker.recognizeForVideo(video, startTimeMs) / marker.detectForVideo(video,
\* startTimeMs) of lines 119-121 is called on the adapter of model m while
\* `others` earlier calls are still awaited.
IssueCall(m, ts, others) ==
  /\ detectCall' = [model |-> m, ts |-> ts, prev |-> detectTs[m],
                    outstanding |-> Cardinality(others)]
  /\ detectTs' = [detectTs EXCEPT ![m] = IF ts > @ THEN ts ELSE @]

\* Lines 93-129 up to the first await (or to the end when nothing is awaited).
PredictStart(q) ==
  /\ now < MaxFrames
  /\ now' = now + 1
  /\ IF videoWidth = 0
     THEN /\ finished' = [NoFrame EXCEPT !.ended = TRUE, !.ts = now + 1,
                                          !.early = TRUE]
          /\ rafQueue' = q
          /\ NoSend
          /\ UNCHANGED <<dispatchVars, awaiting>>
     ELSE LET c == [ws |-> NoCalls, safe |-> NoCalls]
          IN IF ShouldDetect(lastVideoTime, currentTime)
             THEN /\ lastVideoTime' = currentTime
                  /\ dispatched' = dispatched \cup {currentTime}
                  /\ dupDispatch' = (dupDispatch \/ currentTime \in dispatched)
                  /\ lastDispatch' = currentTime
                  /\ LET k == NextDetect(1, detect, landmarker)
                         g == [NoFrame EXCEPT
                                 !.ts = now + 1,
                                 !.processed = TRUE,
                                 !.en0 = Range(allModelState) \cap detect \cap landmarker]
                     IN IF k = 0
                        THEN /\ FinishFrame(g, c, results, q)
                             /\ UNCHANGED <<awaiting, detectTs>>
                        ELSE /\ awaiting' = awaiting \cup
                                  {[ts |-> now + 1, i |-> k, f |->
                                    [g EXCEPT !.det = {allModelState[k]}]]}
                             /\ rafQueue' = SuspendedQueue(q)
                             /\ wsSendCalls' = NoCalls
                             /\ safeCalls' = NoCalls
                             /\ devMsg' = NoDevMsg
                             /\ IssueCall(allModelState[k], now + 1, awaiting)
                             /\ finished' = NoFrame
             ELSE /\ FinishFrame([NoFrame EXCEPT !.ts = now + 1], c, results, q)
                  /\ UNCHANGED <<dispatchVars, awaiting>>

\* window.requestAnimationFrame(() => predictWebcam(...)) fires.
AnimationFrame ==
  /\ pendingListeners = 0
  /\ rafQueue > 0
  /\ PredictStart(rafQueue - 1)
  /\ lastEvent' = NoEvent
  /\ UNCHANGED <<setupPc, modelVars, overlayShow, webcamId, webcamDevices,
                 webcamRunning, socketVars, bodyRed, videoVars, camVars,
                 msgCount, sendVars, loadedStarts, failedAt, aliveAtSwitch>>

\* One "loadeddata" listener of line 75 runs.
LoadedDataListener ==
  /\ pendingListeners > 0
  /\ pendingListeners' = pendingListeners - 1
  /\ PredictStart(rafQueue)
  /\ loadedStarts' = loadedStarts + 1
  /\ lastEvent' = NoEvent
  /\ UNCHANGED <<setupPc, modelVars, overlayShow, webcamId, webcamDevices,
                 webcamRunning, socketVars, bodyRed, videoState, currentTime,
                 listeners, camVars, msgCount, sendVars, failedAt, aliveAtSwitch>>

\* The predictWebcam chains alive: callbacks queued by requestAnimationFrame
\* and invocations suspended at an await (each requeues when it ends).
Chains == rafQueue + Cardinality(awaiting)

\* The adapters' detection contract: a call is asynchronous, its promise
\* settles in a later task, after any delay; until then it is outstanding.
Outstanding == awaiting

\* An awaited detectForVideo / recognizeForVideo call of invocation r resolves:
\* lines 119-129, then on to the next await or to the end of the function.
DetectResolved(r) ==
  LET m == allModelState[r.i]
      res == results \cup {m}
      c == LoopSend(ws, [ws |-> NoCalls, safe |-> NoCalls])
      f == [r.f EXCEPT !.resultCalls = @ + 1]
      k == NextDetect(r.i + 1, detect, landmarker)
  IN /\ results' = res
     /\ IF k = 0
        THEN /\ awaiting' = awaiting \ {r}
             /\ FinishFrame(f, c, res, rafQueue)
             /\ UNCHANGED detectTs
        ELSE /\ awaiting' = (awaiting \ {r}) \cup
                  {[r EXCEPT !.i = k, !.f = [f EXCEPT !.det = @ \cup {allModelState[k]}]]}
             /\ wsSendCalls' = c.ws
             /\ safeCalls' = c.safe
             /\ devMsg' = NoDevMsg
             /\ IssueCall(allModelState[k], r.ts, awaiting \ {r})
             /\ finished' = NoFrame
             /\ UNCHANGED rafQueue
     /\ lastEvent' = NoEvent
     /\ UNCHANGED <<setupPc, landmarker, detect, overlayShow, webcamVars,
                    socketVars, bodyRed, videoVars, camVars, now, msgCount,
                    sendVars, loadedStarts, dispatched, dupDispatch,
                    lastDispatch, failedAt, aliveAtSwitch>>

\* A step that sends nothing, ends no invocation and handles no message.
Quiet == NoSend /\ finished' = NoFrame /\ lastEvent' = NoEvent

\* --------------------------------------------------------------- enableCam
\* function enableCam: navigator.mediaDevices.getUserMedia(constraints) with
\* constraints.video.deviceId = id; the promise settles later.
enableCam(id) ==
  /\ gumPending' = [gumPending EXCEPT ![id] = @ + 1]
  /\ gumCalls' = gumCalls + 1
  /\ UNCHANGED grants

GrantedChainsCancelled ==
  /\ rafQueue' = 0
  /\ UNCHANGED awaiting

\* What the .then handler of lines 73-80 does to the chains already alive: it
\* cancels no queued animation-frame callback and no suspended invocation.
GrantedChains == UNCHANGED <<rafQueue, awaiting>>

\* .then((stream) => { ... }) of lines 73-80.  Setting video.srcObject resets
\* the element: no frame (videoWidth 0) and currentTime 0 until loadeddata.
CameraGranted(id) ==
  /\ pendingListeners = 0
  /\ gumPending[id] > 0
  /\ gumPending' = [gumPending EXCEPT ![id] = @ - 1]
  /\ grants' = grants + 1
  /\ videoState' = "loading"
  /\ currentTime' = 0
  /\ listeners' = listeners + 1
  /\ webcamRunning' = TRUE
  /\ GrantedChains
  /\ Quiet
  /\ UNCHANGED <<setupPc, modelVars, overlayShow, webcamId, webcamDevices,
                 lastVideoTime, socketVars, bodyRed, pendingListeners,
                 now, msgCount, sendVars, gumCalls, loadedStarts,
                 dispatched, dupDispatch, lastDispatch, detectTs, failedAt, aliveAtSwitch>>

CatchRequestsRetry(id) ==
  /\ gumCalls' = gumCalls + 1
  /\ UNCHANGED <<gumPending, grants>>

\* What the .catch handler of lines 81-84 does to the capture requests: it
\* settles the rejected one and makes no new one.
CatchRequests(id) ==
  /\ gumPending' = [gumPending EXCEPT ![id] = @ - 1]
  /\ UNCHANGED <<gumCalls, grants>>

\* .catch(function (err) { ... }) of lines 81-84.
CameraRefused(id) ==
  /\ pendingListeners = 0
  /\ gumPending[id] > 0
  /\ CatchRequests(id)
  /\ bodyRed' = TRUE
  /\ lastEvent' = [NoEvent EXCEPT !.type = "cameraRefused", !.deviceId = id]
  /\ NoSend
  /\ finished' = NoFrame
  /\ UNCHANGED <<setupPc, modelVars, overlayShow, webcamVars, socketVars,
                 videoVars, rafQueue, awaiting, now, msgCount, sendVars,
                 loadedStarts, dispatched, dupDispatch, lastDispatch, detectTs, failedAt, aliveAtSwitch>>

\* The video element has its first frame: the "loadeddata" event is
\* dispatched to every listener registered so far.
LoadedData ==
  /\ pendingListeners = 0
  /\ videoState = "loading"
  /\ videoState' = "playing"
  /\ pendingListeners' = listeners
  /\ Quiet
  /\ UNCHANGED <<setupPc, modelVars, overlayShow, webcamVars, socketVars,
                 bodyRed, currentTime, listeners, rafQueue, gumPending, awaiting,
                 now, msgCount, histVars>>

\* The playing stream presents its next frame.
VideoAdvance ==
  /\ pendingListeners = 0
  /\ videoState = "playing"
  /\ currentTime < MaxTime
  /\ currentTime' = currentTime + 1
  /\ Quiet
  /\ UNCHANGED <<setupPc, modelVars, overlayShow, webcamVars, socketVars,
                 bodyRed, videoState, listeners, pendingListeners, rafQueue,
                 gumPending, awaiting, now, msgCount, histVars>>

\* ------------------------------------------------------- getWebcamDevices
\* enumerateDevices() either yields a device list or rejects.
EnumOutcomes == {[ok |-> TRUE, ids |-> l] : l \in DeviceLists}
                \cup {[ok |-> FALSE, ids |-> <<>>]}

getWebcamDevicesNoFallback(o) ==
  IF o.ok THEN DeviceInfo(o.ids) ELSE <<[deviceId |-> "undefined"]>>

\* async function getWebcamDevices(): the returned list.
getWebcamDevices(o) == IF o.ok THEN DeviceInfo(o.ids) ELSE <<>>

\* ------------------------------------------------------------------- setup
UrlParams == {<<>>} \cup {<<e>> : e \in Entries}

\* handleQueryParams(), up to the first await of setup().
SetupParams ==
  /\ setupPc = "params"
  /\ \E params \in UrlParams :
       LET st == ApplyEntries(params, ConfigState) IN
       /\ detect' = st.detect
       /\ overlayShow' = st.show
       /\ setupPc' = IF st.threw THEN "halted" ELSE "devices"
       /\ lastEvent' = ConfigEvent("url", params, st)
  /\ NoSend
  /\ finished' = NoFrame
  /\ UNCHANGED <<landmarker, results, webcamVars, socketVars, bodyRed, videoVars,
                 rafQueue, gumPending, awaiting, now, msgCount, histVars>>

\* webcamState.webcamDevices = await getWebcamDevices();
SetupDevices ==
  /\ setupPc = "devices"
  /\ \E o \in EnumOutcomes :
       /\ webcamDevices' = getWebcamDevices(o)
       /\ bodyRed' = (bodyRed \/ ~o.ok)
  /\ setupPc' = "create"
  /\ Quiet
  /\ UNCHANGED <<modelVars, overlayShow, webcamId, webcamRunning, lastVideoTime,
                 socketVars, videoVars, rafQueue, gumPending, awaiting, now,
                 msgCount, histVars>>

NextToLoad == LoadOrder[Cardinality(landmarker) + 1]

SetupAfterCaught(rejected) == "create"

\* Where setup() goes on after an awaited factory settles: nothing catches a
\* rejection, so the async function ends there.
SetupAfter(rejected) == IF rejected THEN "halted" ELSE "create"

\* An adapter factory of lines 40-45 resolves.
SetupCreate ==
  /\ setupPc = "create"
  /\ Cardinality(landmarker) + 1 < Len(LoadOrder)
  /\ landmarker' = landmarker \cup {NextToLoad}
  /\ setupPc' = SetupAfter(FALSE)
  /\ Quiet
  /\ UNCHANGED <<detect, results, overlayShow, webcamVars, socketVars,
                 bodyRed, videoVars, rafQueue, gumPending, awaiting, now,
                 msgCount, histVars>>

\* createObjectDetector resolves: lines 46-48, setupWebSocket and enableCam.
SetupFinish ==
  /\ setupPc = "create"
  /\ Cardinality(landmarker) + 1 = Len(LoadOrder)
  /\ landmarker' = landmarker \cup {NextToLoad}
  /\ ws' = "CONNECTING"
  /\ enableCam(webcamId)
  /\ setupPc' = "done"
  /\ Quiet
  /\ UNCHANGED <<detect, results, overlayShow, webcamVars, openPc, bodyRed,
                 videoVars, rafQueue, awaiting, now, msgCount, sendVars,
                 loadedStarts, dispatched, dupDispatch, lastDispatch, detectTs, failedAt, aliveAtSwitch>>

\* An adapter factory rejects: setup() ends with an unhandled rejection.
SetupCreateFails ==
  /\ setupPc = "create"
  /\ failedAt' = NextToLoad
  /\ UNCHANGED aliveAtSwitch
  /\ setupPc' = SetupAfter(TRUE)
  /\ Quiet
  /\ UNCHANGED <<modelVars, overlayShow, webcamVars, socketVars, bodyRed,
                 videoVars, rafQueue, gumPending, awaiting, now, msgCount,
                 sendVars, gumCalls, grants, loadedStarts, dispatched,
                 dupDispatch, lastDispatch, detectTs>>

\* ---------------------------------------------------------- setupWebSocket
\* The 'open' listener, up to the getWebcamDevices() promise.
SocketOpen ==
  /\ pendingListeners = 0
  /\ ws = "CONNECTING"
  /\ ws' = "OPEN"
  /\ wsSendCalls' = WsSend("OPEN", NoCalls)
  /\ safeCalls' = NoCalls
  /\ devMsg' = NoDevMsg
  /\ detectCall' = NoCall
  /\ pongCalls' = pongCalls + 1
  /\ openPc' = "enum"
  /\ finished' = NoFrame
  /\ lastEvent' = NoEvent
  /\ UNCHANGED <<setupPc, modelVars, overlayShow, webcamVars, bodyRed, videoVars,
                 rafQueue, gumPending, awaiting, now, msgCount, devCalls,
                 gumCalls, grants, loadedStarts, dispatched, dupDispatch,
                 lastDispatch, detectTs, failedAt, aliveAtSwitch>>

\* getWebcamDevices().then(devices => { ... }) of lines 160-163.
SocketDevices ==
  /\ pendingListeners = 0
  /\ openPc = "enum"
  /\ \E o \in EnumOutcomes :
       /\ devMsg' = [sent |-> TRUE, enumOk |-> o.ok, ids |-> o.ids,
                     devices |-> getWebcamDevices(o)]
       /\ bodyRed' = (bodyRed \/ ~o.ok)
  /\ wsSendCalls' = WsSend(ws, NoCalls)
  /\ safeCalls' = NoCalls
  /\ detectCall' = NoCall
  /\ devCalls' = devCalls + 1
  /\ openPc' = "done"
  /\ finished' = NoFrame
  /\ lastEvent' = NoEvent
  /\ UNCHANGED <<setupPc, modelVars, overlayShow, webcamVars, ws, videoVars,
                 rafQueue, gumPending, awaiting, now, msgCount, pongCalls,
                 gumCalls, grants, loadedStarts, dispatched, dupDispatch,
                 lastDispatch, detectTs, failedAt, aliveAtSwitch>>

\* The connection fails, or the closing handshake starts ('error' and 'close'
\* listeners only log).
SocketClosed ==
  /\ pendingListeners = 0
  /\ ws \in {"CONNECTING", "OPEN"}
  /\ ws' = "CLOSED"
  /\ Quiet
  /\ UNCHANGED <<setupPc, modelVars, overlayShow, webcamVars, openPc, bodyRed,
                 videoVars, rafQueue, gumPending, awaiting, now, msgCount,
                 histVars>>

\* 'message' listener: if (event.data === 'ping' || event.data === 'pong') return;
MessagePing ==
  /\ pendingListeners = 0
  /\ ws = "OPEN"
  /\ msgCount < MaxMsgs
  /\ msgCount' = msgCount + 1
  /\ lastEvent' = [NoEvent EXCEPT !.type = "ping"]
  /\ NoSend
  /\ finished' = NoFrame
  /\ UNCHANGED <<setupPc, modelVars, overlayShow, webcamVars, socketVars, bodyRed,
                 videoVars, rafQueue, gumPending, awaiting, now, histVars>>

\* 'message' listener, lines 172-178: {type: "selectWebcam", deviceId}.
MessageSelectWebcam(deviceId) ==
  /\ pendingListeners = 0
  /\ ws = "OPEN"
  /\ msgCount < MaxMsgs
  /\ msgCount' = msgCount + 1
  /\ LET id == IF checkDeviceIds(deviceId, webcamDevices) THEN deviceId ELSE webcamId
     IN /\ webcamId' = id
        /\ enableCam(id)
  /\ aliveAtSwitch' = (aliveAtSwitch \/ Chains > 0)
  /\ lastEvent' = [NoEvent EXCEPT !.type = "selectWebcam", !.deviceId = deviceId,
                                  !.known = checkDeviceIds(deviceId, webcamDevices)]
  /\ NoSend
  /\ finished' = NoFrame
  /\ UNCHANGED <<setupPc, modelVars, overlayShow, webcamDevices, webcamRunning,
                 lastVideoTime, socketVars, bodyRed, videoVars, rafQueue,
                 awaiting, now, sendVars, loadedStarts, dispatched, dupDispatch,
                 lastDispatch, detectTs, failedAt>>

ConfigMsgs == {<<e>> : e \in Entries} \cup {<<d, e>> : d \in Entries, e \in Entries}

\* 'message' listener, lines 179-184: any other JSON object is a flat set of
\* configuration entries.
MessageConfig(entries) ==
  /\ pendingListeners = 0
  /\ ws = "OPEN"
  /\ msgCount < MaxMsgs
  /\ msgCount' = msgCount + 1
  /\ LET st == ApplyEntries(entries, ConfigState) IN
       /\ detect' = st.detect
       /\ overlayShow' = st.show
       /\ awaiting' = {[r EXCEPT !.f.stable = (@ /\ st.detect = detect)] : r \in awaiting}
       /\ lastEvent' = ConfigEvent("config", entries, st)
  /\ NoSend
  /\ finished' = NoFrame
  /\ UNCHANGED <<setupPc, landmarker, results, webcamVars, socketVars, bodyRed,
                 videoVars, rafQueue, gumPending, now, histVars>>

\* ------------------------------------------------------------ specification
\* The detect flags the state objects are created with (state.js).
DetectDefault == {"faceDetector", "gesture", "object"}

\* The initial fields of the state objects (state.js).
StateInit == [detect |-> DetectDefault, results |-> {}, show |-> TRUE,
              webcamId |-> NoId, webcamRunning |-> FALSE, lastVideoTime |-> -1]

\* The state after the module's top-level code has run, with the device list
\* and the observation of the latest handler given.
InitWith(devices, event) ==
  /\ setupPc = "params"
  /\ landmarker = {}
  /\ detect = StateInit.detect
  /\ results = StateInit.results
  /\ overlayShow = StateInit.show
  /\ webcamId = StateInit.webcamId
  /\ webcamDevices = devices
  /\ webcamRunning = StateInit.webcamRunning
  /\ lastVideoTime = StateInit.lastVideoTime
  /\ ws = "null"
  /\ openPc = "none"
  /\ bodyRed = FALSE
  /\ videoState = "empty"
  /\ currentTime = 0
  /\ listeners = 0
  /\ pendingListeners = 0
  /\ rafQueue = 0
  /\ gumPending = [d \in (SelectIds \cap DeviceIds) \cup {NoId} |-> 0]
  /\ awaiting = {}
  /\ now = 0
  /\ msgCount = 0
  /\ pongCalls = 0
  /\ devCalls = 0
  /\ gumCalls = 0
  /\ grants = 0
  /\ loadedStarts = 0
  /\ dispatched = {}
  /\ dupDispatch = FALSE
  /\ lastDispatch = -1
  /\ detectTs = [m \in Range(allModelState) |-> 0]
  /\ failedAt = "none"
  /\ aliveAtSwitch = FALSE
  /\ wsSendCalls = NoCalls
  /\ safeCalls = NoCalls
  /\ devMsg = NoDevMsg
  /\ detectCall = NoCall
  /\ finished = NoFrame
  /\ lastEvent = event

Init == InitWith(<<>>, NoEvent)

Next ==
  \/ SetupParams
  \/ SetupDevices
  \/ SetupCreate
  \/ SetupFinish
  \/ SetupCreateFails
  \/ \E id \in DOMAIN gumPending : CameraGranted(id)
  \/ \E id \in DOMAIN gumPending : CameraRefused(id)
  \/ LoadedData
  \/ LoadedDataListener
  \/ VideoAdvance
  \/ AnimationFrame
  \/ \E r \in Outstanding : DetectResolved(r)
  \/ SocketOpen
  \/ SocketDevices
  \/ SocketClosed
  \/ MessagePing
  \/ \E d \in SelectIds : MessageSelectWebcam(d)
  \/ \E entries \in ConfigMsgs : MessageConfig(entries)

Spec == Init /\ [][Next]_vars

\* ------------------------------------------------- checkDeviceIds harness
\* The device lists and keys checkDeviceIds is applied to on its own: every
\* list of at most MaxDevices entries over three ids (entries may repeat),
\* every key among those ids and one more.
HarnessIds == DeviceIds \cup {"camC"}
HarnessLists == UNION {[1..n -> HarnessIds] : n \in 0..MaxDevices}
HarnessKeys == HarnessIds \cup {UnknownId}

InitCheck ==
  \E l \in HarnessLists, key \in HarnessKeys :
    InitWith(DeviceInfo(l), [NoEvent EXCEPT !.type = "key", !.deviceId = key])

\* checkDeviceIds(key, webcamState.webcamDevices) is evaluated.
CheckDeviceIdsCall ==
  /\ lastEvent.type = "key"
  /\ lastEvent' = [lastEvent EXCEPT
                     !.type = "checked",
                     !.known = checkDeviceIds(lastEvent.deviceId, webcamDevices)]
  /\ UNCHANGED <<progVars, histVars, wsSendCalls, safeCalls, devMsg, detectCall,
               finished>>

NextCheck == CheckDeviceIdsCall

SpecCheck == InitCheck /\ [][NextCheck]_vars

\* ================================================================= claims
Total(calls) == calls.open + calls.notOpen
Pending == gumPending[NoId] + gumPending["camB"]
HasDevice(id, devices) == \E k \in 1..Len(devices) : devices[k].deviceId = id

C2_NeverTwiceForSameTime == ~dupDispatch

\* C2 (amended): an invocation that observes the currentTime of the most
\* recent run of the dispatch block does not run the block again and makes
\* no detection call; a value dispatched earlier than that can be dispatched
\* again (a camera switch resets currentTime).
C2_NoDispatchForLastTime ==
  [][(now' = now + 1 /\ currentTime = lastDispatch) =>
       (/\ awaiting' = awaiting
        /\ dispatched' = dispatched
        /\ lastDispatch' = lastDispatch
        /\ ~finished'.processed)]_vars

\* C2 witness: with two loadeddata listeners run, an invocation has found
\* currentTime unchanged since the last dispatch and ended without detecting.
C2_Witness ==
  /\ loadedStarts >= 2
  /\ finished.ended /\ ~finished.early /\ ~finished.processed
  /\ currentTime = lastDispatch
  /\ 0 \in dispatched

\* C3: a selectWebcam message whose deviceId is in webcamDevices sets webcamId
\* to it and issues a capture request for it; one whose deviceId is in no
\* entry leaves webcamId unchanged.
C3_SelectWebcam ==
  [][lastEvent'.type = "selectWebcam" =>
       IF HasDevice(lastEvent'.deviceId, webcamDevices)
       THEN /\ webcamId' = lastEvent'.deviceId
            /\ gumCalls' = gumCalls + 1
            /\ gumPending'[lastEvent'.deviceId] = gumPending[lastEvent'.deviceId] + 1
       ELSE webcamId' = webcamId]_vars

\* C3 witness: the message named the second device of the list; webcamId is
\* that device and a capture request for it is outstanding.
C3_Witness ==
  /\ lastEvent.type = "selectWebcam" /\ lastEvent.deviceId = "camB"
  /\ webcamId = "camB"
  /\ gumPending["camB"] = 1
  /\ gumCalls = 2

\* C4 (as stated): loadeddata starts the loop exactly once per successful
\* enableCam invocation, so loadeddata listeners never start more loops than
\* there were camera grants.
C4_OneLoopPerGrant == loadedStarts <= grants

\* C5: a safeSocketSend call that meets a connection that is not open invokes
\* no ws.send, and the message is not kept: every step invokes ws.send only
\* for its own messages (once per safeSocketSend call made while open, once
\* for "pong", once for the device list), so nothing dropped is sent later,
\* not even by the step that opens the connection.
C5_NotOpenDropped ==
  [][/\ safeCalls'.notOpen > 0 => Total(wsSendCalls') = 0
     /\ Total(wsSendCalls') = safeCalls'.open + (pongCalls' - pongCalls)
                              + (devCalls' - devCalls)]_vars

\* C5 witness: a frame ended while the connection was still connecting: its
\* result message and its timing message met a connection that is not open
\* and ws.send was not invoked.
C5_Witness ==
  /\ ws = "CONNECTING"
  /\ finished.ended /\ finished.resultCalls = 1
  /\ safeCalls.notOpen = 2
  /\ Total(wsSendCalls) = 0

\* C6 (as stated): a key that is not in configMap is ignored without an
\* error, in a parameter list and in a message, and every entry whose key is
\* in configMap is applied.
C6_ForeignKeysIgnored ==
  lastEvent.type \in {"url", "config"} =>
    (~lastEvent.threw /\ lastEvent.applied = lastEvent.own)

\* C7: checkDeviceIds(key, list) is true exactly when some entry of the list
\* has deviceId equal to key; for the empty list it is false.
C7_CheckDeviceIds ==
  lastEvent.type \in {"checked", "selectWebcam"} =>
    /\ lastEvent.known = HasDevice(lastEvent.deviceId, webcamDevices)
    /\ webcamDevices = <<>> => ~lastEvent.known

\* C7 witness: the key is the deviceId of the second of two different entries,
\* and checkDeviceIds returned true.
C7_Witness ==
  /\ lastEvent.type = "checked" /\ lastEvent.known
  /\ Len(webcamDevices) = 2
  /\ webcamDevices[1].deviceId # lastEvent.deviceId
  /\ webcamDevices[2].deviceId = lastEvent.deviceId

\* C8: when a capture request fails the error indicator is set, the request
\* starts no loop and registers no listener, webcamRunning and webcamId keep
\* their values and no new request is made; requests are made only by the
\* end of setup and by a selectWebcam message.
C8_RefusedNoRetry ==
  [][/\ lastEvent'.type = "cameraRefused" =>
          /\ bodyRed'
          /\ gumCalls' = gumCalls
          /\ Pending' = Pending - 1
          /\ UNCHANGED <<webcamRunning, webcamId, listeners, pendingListeners,
                         rafQueue, awaiting, now, loadedStarts, videoState>>
     /\ gumCalls' # gumCalls =>
          \/ (setupPc = "create" /\ setupPc' = "done")
          \/ lastEvent'.type = "selectWebcam"]_vars

\* C8 witness: the capture request of setup was refused: the page is red, no
\* request is outstanding, no listener is registered and no loop has run.
C8_Witness ==
  /\ lastEvent.type = "cameraRefused"
  /\ bodyRed /\ gumCalls = 1 /\ Pending = 0
  /\ listeners = 0 /\ now = 0 /\ ~webcamRunning

\* C9: once an adapter factory has rejected, the adapters later in the load
\* order stay null, there is no WebSocket, no capture request, no listener,
\* no predictWebcam invocation and no message sent.
C9_SetupHalts ==
  failedAt # "none" =>
    /\ setupPc = "halted"
    /\ \E n \in 1..Len(LoadOrder) :
         /\ LoadOrder[n] = failedAt
         /\ landmarker = {LoadOrder[k] : k \in 1..(n - 1)}
    /\ ws = "null" /\ openPc = "none"
    /\ gumCalls = 0 /\ Pending = 0 /\ grants = 0 /\ listeners = 0
    /\ videoState = "empty" /\ ~webcamRunning
    /\ now = 0 /\ rafQueue = 0 /\ awaiting = {}
    /\ pongCalls = 0 /\ devCalls = 0
    /\ Total(wsSendCalls) = 0 /\ Total(safeCalls) = 0

\* C9 witness: the third factory (face landmarks) rejected after the first
\* two adapters were created.
C9_Witness ==
  /\ failedAt = "faceLandmark"
  /\ landmarker = {"hand", "gesture"}
  /\ setupPc = "halted"

\* C10: the open handler invokes ws.send once with "pong" and, after the
\* device enumeration has settled, once with the webcamDevices message,
\* never the device list first and never a second time; when the enumeration
\* failed the message carries the empty list, otherwise the enumerated one.
C10_PongThenDevices ==
  /\ pongCalls = (IF openPc = "none" THEN 0 ELSE 1)
  /\ devCalls = (IF openPc = "done" THEN 1 ELSE 0)
  /\ devMsg.sent =>
       /\ openPc = "done"
       /\ Total(wsSendCalls) = 1
       /\ devMsg.devices = (IF devMsg.enumOk
                            THEN [k \in 1..Len(devMsg.ids) |-> [deviceId |-> devMsg.ids[k]]]
                            ELSE <<>>)

\* C10 witness: the enumeration of the open handler failed and the
\* webcamDevices message was passed to ws.send with an empty list, after
\* "pong".
C10_Witness ==
  /\ devMsg.sent /\ ~devMsg.enumOk /\ devMsg.devices = <<>>
  /\ pongCalls = 1 /\ devCalls = 1
  /\ wsSendCalls.open = 1

\* C11 (as stated): a selectWebcam message whose deviceId is in no entry of
\* webcamDevices neither changes webcamId nor issues a capture request.
C11_UnknownIdNoRequest ==
  [][(lastEvent'.type = "selectWebcam"
      /\ ~HasDevice(lastEvent'.deviceId, webcamDevices)) =>
       (webcamId' = webcamId /\ gumCalls' = gumCalls /\ Pending' = Pending)]_vars

\* C12 (as stated): the timestampMs passed to an adapter's detection call is
\* never smaller than one passed to the same adapter before.
C12_TimestampsNonDecreasing ==
  detectCall.model # "none" => detectCall.ts >= detectCall.prev

\* C13 (as stated): an invocation requeues itself exactly when webcamRunning
\* is true, so a chain never ends while webcamRunning is true, and every
\* invocation runs to its end, timing message included.
C13_RequeueIffRunning ==
  finished.ended =>
    /\ finished.requeued <=> webcamRunning
    /\ finished.timingCalls = 1

\* C14 (as stated): a processed frame calls the detection entry point of
\* every one of the six capabilities (face detection included) whose detect
\* flag is true and whose landmarker is non-null, and of no other, and sends
\* one result for each.
C14_FullRegistry ==
  (finished.ended /\ finished.processed /\ finished.stable) =>
    /\ finished.det = Models \cap detect \cap landmarker
    /\ finished.resultCalls = Cardinality(finished.det)

Pos(m) == CHOOSE k \in 1..Len(allModelState) : allModelState[k] = m

\* C15: draw calls are made only by the step that ends an invocation, after
\* its last detection call has completed: no step that issues a detection
\* call draws, the drawing invocation has no detection outstanding, and when
\* no detect flag changed meanwhile every enabled entry was detected before.
\* The draw calls follow registry order, object detection last.
C15_DetectBeforeDraw ==
  /\ finished.drawn # <<>> =>
       /\ finished.ended
       /\ \A r \in awaiting : r.ts # finished.ts
       /\ (finished.processed /\ finished.stable) => finished.det = finished.en0
  /\ detectCall.model # "none" => finished.drawn = <<>>
  /\ \A i, j \in 1..Len(finished.drawn) :
       i < j => Pos(finished.drawn[i]) < Pos(finished.drawn[j])
  /\ \A i \in 1..Len(finished.drawn) :
       finished.drawn[i] = "object" => i = Len(finished.drawn)

\* C15 witness: a processed frame detected with gesture and object, both calls
\* completed, and then drew gesture before object.
C15_Witness ==
  /\ finished.ended /\ finished.processed
  /\ finished.det = {"gesture", "object"}
  /\ finished.resultCalls = 2
  /\ finished.drawn = <<"gesture", "object">>

\* C16: neither a selectWebcam message nor the camera grant that follows it
\* cancels a chain that is alive, and every invocation that passes the size
\* check while webcamRunning is true reschedules itself; so two chains can be
\* alive at once (the witness).
C16_SwitchKeepsPriorChain ==
  [][/\ (lastEvent'.type = "selectWebcam" \/ grants' # grants) =>
          /\ rafQueue' = rafQueue
          /\ awaiting' = awaiting
          /\ webcamRunning => webcamRunning'
     /\ (finished'.ended /\ ~finished'.early /\ webcamRunning') =>
          finished'.requeued]_vars

\* C16 witness: a selectWebcam message arrived while the first chain was
\* alive and its capture request was granted; the second loadeddata event
\* has run one of its two listeners, and the prior chain and the new one are
\* both alive while webcamRunning is true.
C16_Witness ==
  /\ aliveAtSwitch /\ grants = 2 /\ webcamId = "camB"
  /\ webcamRunning
  /\ videoState = "playing"
  /\ loadedStarts = 2 /\ pendingListeners = 1
  /\ Chains >= 2

\* C17 (as stated): ws.send is invoked only while the connection is open,
\* whatever the message.
C17_SendOnlyWhenOpen == wsSendCalls.notOpen = 0

CallsOf(A) == {<<r.ts, r.i>> : r \in A}

\* C18: a loop awaiting a detection call does nothing until that call
\* completes, however long that takes: the step that suspends an invocation
\* has sent no timing message, drawn nothing and queued no animation frame;
\* a step in which no detection call completes and no invocation starts
\* sends nothing through safeSocketSend, draws nothing, ends no invocation,
\* issues no detection call and queues no animation frame; and an
\* outstanding call stays outstanding until its own completion sends its
\* result.
C18_HangStallsLoop ==
  [][/\ (CallsOf(awaiting') \ CallsOf(awaiting) # {}) =>
          (finished' = NoFrame /\ rafQueue' <= rafQueue)
     /\ (CallsOf(awaiting') = CallsOf(awaiting) /\ now' = now) =>
          /\ Total(safeCalls') = 0
          /\ finished' = NoFrame
          /\ detectCall' = NoCall
          /\ rafQueue' = rafQueue
     /\ \A c \in CallsOf(awaiting) \ CallsOf(awaiting') :
          /\ Total(safeCalls') >= 1
          /\ allModelState[c[2]] \in results']_vars

\* C18 witness: the only chain is suspended at its first detection call and
\* meanwhile the video has advanced, the connection has opened and a message
\* has been handled: no animation frame is queued and nothing was sent for
\* the frame.
C18_Witness ==
  /\ Cardinality(awaiting) = 1 /\ rafQueue = 0 /\ pendingListeners = 0
  /\ now = 1 /\ currentTime = 1
  /\ ws = "OPEN" /\ msgCount = 1
  /\ results = {}
  /\ lastEvent.type = "config"

\* C19 (as stated): no detection call is issued while another one is still
\* awaited, so at most one detection call is outstanding at any time.
C19_OneCallOutstanding ==
  /\ Cardinality(Outstanding) <= 1
  /\ detectCall.model # "none" => detectCall.outstanding = 0

====
